---- MODULE Spec2Model ----
(***************************************************************************)
(* Model of elgato-gchd.c: the command-line front end of the Elgato Game   *)
(* Capture HD userspace driver.  The main flow (option parsing, firmware   *)
(* check, device location, interface acquisition, sink creation,           *)
(* configuration dispatch, capture loop, clean_up) is a sequence of steps  *)
(* indexed by pc; sig_handler may run between any two of them.             *)
(*                                                                         *)
(* trace is the sequence of externally visible events of the run, in       *)
(* program order: <<"call", f>> for a call of a library or collaborator    *)
(* function and <<"print", line>> for a line written to stderr.            *)
(***************************************************************************)
EXTENDS Integers, Sequences, FiniteSets, TLC

VARIABLES
    pc,                 \* position of the main flow
    args,               \* argv words getopt_long has not consumed yet
    token,              \* last resolution token accepted by the option loop
    resolution,         \* int resolution (main, line 161)
    is_running,         \* static volatile sig_atomic_t is_running (line 45)
    libusb_ret,         \* int libusb_ret (line 46)
    fd_fifo,            \* int fd_fifo (line 47)
    init_has_been_run,  \* int init_has_been_run (line 48)
    devh,               \* libusb device handle pointer (NULL or a handle)
    ctx_ready,          \* the libusb context is initialized
    handle_open,        \* the handle devh points to is open
    claimed,            \* interface 0 is claimed by this process
    driver_detached,    \* a kernel driver was detached from interface 0
    fifo_exists,        \* fifo_path exists in the filesystem
    fifo_fd_open,       \* the descriptor returned by open(fifo_path) is open
    exit_status,        \* NotExited until the process ends
    bad_cmdline,        \* the command line given holds a usage error
    trace               \* events so far

vars == <<pc, args, token, resolution, is_running, libusb_ret, fd_fifo,
          init_has_been_run, devh, ctx_ready, handle_open, claimed,
          driver_detached, fifo_exists, fifo_fd_open, exit_status,
          bad_cmdline, trace>>

----------------------------------------------------------------------------
(* Bounds of the model *)

MaxArgs == 3        \* argv words after the program name
MaxRecv == 2        \* receive_data calls in one run
MaxSignals == 2     \* SIGINT/SIGTERM deliveries in one run

----------------------------------------------------------------------------
(* Constants of the program and of its libraries *)

NULL == 0
EXIT_SUCCESS == 0
EXIT_FAILURE == 1
SIGSEGV_STATUS == 139           \* status of a process killed by SIGSEGV
NotExited == -1
LIBUSB_ERROR_OTHER == -99       \* a non-zero libusb_init result
OPEN_FAILED == -1               \* open() failure result
FIFO_FD == 3                    \* first free descriptor after 0, 1, 2

\* enum video_resoltion
v720p == 0
v1080p == 1
v576i == 2
vc576p == 3
vc720p == 4
vc1080i == 5
vc1080p == 6

\* the four product ids probed by init_dev_handler, by probe position
PIDS == 0..3
UNSUPPORTED_PID == 3

Tokens == {"720p", "1080p", "576i", "c576p", "c720p", "c1080i", "c1080p"}
Signals == {"SIGINT", "SIGTERM"}

\* argv words: the option -r, an unknown short option, an unknown long option,
\* the seven tokens and a word that is no token
Words == {"-r", "-x", "--x", "bogus"} \cup Tokens

Call(f) == <<"call", f>>
Out(s) == <<"print", s>>

\* the first line of the text sig_handler writes (line 62)
StopLine == Out("Stop signal received.")
TerminatingLine == Out("Terminating.")

RECURSIVE SeqsUpTo(_, _)
SeqsUpTo(S, n) ==
    IF n = 0 THEN {<<>>}
    ELSE LET shorter == SeqsUpTo(S, n - 1)
         IN  shorter \cup {Append(s, w) : s \in shorter, w \in S}

Count(e) == Cardinality({i \in DOMAIN trace : trace[i] = e})
Has(e) == \E i \in DOMAIN trace : trace[i] = e
Tail2(s) == SubSeq(s, 3, Len(s))

\* The command line holds a usage error: an unrecognized option, -r without
\* a value, or -r with a value that is none of the seven tokens.
RECURSIVE UsageError(_)
UsageError(a) ==
    IF a = <<>> THEN FALSE
    ELSE IF Head(a) \in {"-x", "--x"} THEN TRUE
    ELSE IF Head(a) = "-r"
         THEN Len(a) = 1 \/ a[2] \notin Tokens \/ UsageError(Tail2(a))
    ELSE UsageError(Tail(a))

----------------------------------------------------------------------------
(* Option parsing: main, lines 161-201 *)

\* getopt skips (permutes away) words that are not options
RECURSIVE SkipNonOptions(_)
SkipNonOptions(a) ==
    IF a = <<>> THEN a
    ELSE IF Head(a) \in {"-r", "-x", "--x"} THEN a
    ELSE SkipNonOptions(Tail(a))

\* The results one call of getopt_long(argc, argv, "r:", longOptions, &index)
\* can give.  optstring has no leading ':', so a missing argument gives '?'.
\* longOptions has no terminating zero entry, so a long option that is not
\* exactly "resolution" makes getopt_long read past the array: it may report
\* '?', return another value, or crash.
getopt_long(a) ==
    LET b == SkipNonOptions(a)
    IN  IF b = <<>> THEN {[opt |-> "end", optarg |-> "", rest |-> <<>>]}
        ELSE IF Head(b) = "-r" THEN
            IF Len(b) >= 2
            THEN {[opt |-> "r", optarg |-> b[2], rest |-> Tail2(b)]}
            ELSE {[opt |-> "?", optarg |-> "", rest |-> <<>>]}
        ELSE IF Head(b) = "-x" THEN
            {[opt |-> "?", optarg |-> "", rest |-> Tail(b)]}
        ELSE {[opt |-> o, optarg |-> "", rest |-> Tail(b)] :
                 o \in {"?", "other", "crash"}}

\* mutant: two branches of the strcmp chain assign each other's value
ParseRes_Swapped(optarg) ==
    CASE optarg = "720p" -> v720p
      [] optarg = "1080p" -> v1080p
      [] optarg = "576i" -> v576i
      [] optarg = "c576p" -> vc576p
      [] optarg = "c720p" -> vc1080i
      [] optarg = "c1080i" -> vc720p
      [] optarg = "c1080p" -> vc1080p
      [] OTHER -> -1

\* mutant: the last branch assigns a value past the end of the enumeration
ParseRes_OutOfRange(optarg) ==
    CASE optarg = "720p" -> v720p
      [] optarg = "1080p" -> v1080p
      [] optarg = "576i" -> v576i
      [] optarg = "c576p" -> vc576p
      [] optarg = "c720p" -> vc720p
      [] optarg = "c1080i" -> vc1080i
      [] optarg = "c1080p" -> vc1080p + 1
      [] OTHER -> -1

\* the strcmp chain of case 'r'; -1 when no token matches
ParseRes(optarg) ==
    CASE optarg = "720p" -> v720p
      [] optarg = "1080p" -> v1080p
      [] optarg = "576i" -> v576i
      [] optarg = "c576p" -> vc576p
      [] optarg = "c720p" -> vc720p
      [] optarg = "c1080i" -> vc1080i
      [] optarg = "c1080p" -> vc1080p
      [] OTHER -> -1

\* the diagnostic of a failing case of the option switch
UsageLine(o) ==
    CASE o.opt = "r" -> "Unsupported resolution."
      [] o.opt = ":" -> "Missing argument."
      [] o.opt = "?" -> "Unrecognized option."
      [] OTHER -> "Unexpected error."

\* one iteration of the while loop around getopt_long
ParseOption ==
    /\ pc = "parse"
    /\ UNCHANGED bad_cmdline
    /\ \E o \in getopt_long(args) :
         IF o.opt = "end" THEN
             /\ pc' = "fw"
             /\ args' = <<>>
             /\ UNCHANGED <<token, resolution, exit_status, trace>>
         ELSE IF o.opt = "r" /\ ParseRes(o.optarg) # -1 THEN
             /\ resolution' = ParseRes(o.optarg)
             /\ token' = o.optarg
             /\ args' = o.rest
             /\ UNCHANGED <<pc, exit_status, trace>>
         ELSE IF o.opt = "crash" THEN
             /\ pc' = "exited"
             /\ exit_status' = SIGSEGV_STATUS
             /\ args' = o.rest
             /\ UNCHANGED <<token, resolution, trace>>
         ELSE
             /\ trace' = Append(trace, Out(UsageLine(o)))
             /\ pc' = "exited"
             /\ exit_status' = EXIT_FAILURE
             /\ args' = o.rest
             /\ UNCHANGED <<token, resolution>>
    /\ UNCHANGED <<is_running, libusb_ret, fd_fifo, init_has_been_run, devh,
                   ctx_ready, handle_open, claimed, driver_detached,
                   fifo_exists, fifo_fd_open>>

----------------------------------------------------------------------------
(* The part of the state clean_up and the setup functions work on *)

World ==
    [devh |-> devh, init_has_been_run |-> init_has_been_run,
     libusb_ret |-> libusb_ret, fd_fifo |-> fd_fifo,
     ctx_ready |-> ctx_ready, handle_open |-> handle_open,
     claimed |-> claimed, fifo_exists |-> fifo_exists,
     fifo_fd_open |-> fifo_fd_open, trace |-> trace, crashed |-> FALSE]

Apply(w) ==
    /\ devh' = w.devh
    /\ init_has_been_run' = w.init_has_been_run
    /\ libusb_ret' = w.libusb_ret
    /\ fd_fifo' = w.fd_fifo
    /\ ctx_ready' = w.ctx_ready
    /\ handle_open' = w.handle_open
    /\ claimed' = w.claimed
    /\ fifo_exists' = w.fifo_exists
    /\ fifo_fd_open' = w.fifo_fd_open
    /\ trace' = w.trace

----------------------------------------------------------------------------
(* clean_up, lines 127-146 *)

CloseCall(fd) ==
    Call(CASE fd = 0 -> "close(0)"
           [] fd = FIFO_FD -> "close(3)"
           [] OTHER -> "close(-1)")

\* mutant: the reset is sent when the device was not initialized
CleanUpDevice_InvertedGuard(w) ==
    IF w.devh = NULL THEN w
    ELSE LET r == IF w.init_has_been_run = 0
                  THEN [w EXCEPT !.trace = @ \o <<Call("remove_elgato"),
                                        Out("Device has been reset.")>>]
                  ELSE w
         IN  [r EXCEPT !.trace = @ \o <<Call("libusb_release_interface"),
                                        Call("libusb_close")>>,
                       !.claimed = FALSE,
                       !.handle_open = FALSE]

\* mutant: the handle is closed before the interface is released
CleanUpDevice_CloseFirst(w) ==
    IF w.devh = NULL THEN w
    ELSE LET r == IF w.init_has_been_run # 0
                  THEN [w EXCEPT !.trace = @ \o <<Call("remove_elgato"),
                                        Out("Device has been reset.")>>]
                  ELSE w
         IN  [r EXCEPT !.trace = @ \o <<Call("libusb_close"),
                                        Call("libusb_release_interface")>>,
                       !.claimed = FALSE,
                       !.handle_open = FALSE]

\* lines 128-136: the device part
CleanUpDevice(w) ==
    IF w.devh = NULL THEN w
    ELSE LET r == IF w.init_has_been_run # 0
                  THEN [w EXCEPT !.trace = @ \o <<Call("remove_elgato"),
                                        Out("Device has been reset.")>>]
                  ELSE w
         IN  [r EXCEPT !.trace = @ \o <<Call("libusb_release_interface"),
                                        Call("libusb_close")>>,
                       !.claimed = FALSE,
                       !.handle_open = FALSE]

\* lines 138-140: the libusb context
CleanUpContext(w) ==
    IF w.libusb_ret = 0
    THEN [w EXCEPT !.trace = Append(@, Call("libusb_exit")),
                   !.ctx_ready = FALSE]
    ELSE w

\* mutant: the sink is closed but its path is not unlinked
CleanUpSink_NoUnlink(w) ==
    [w EXCEPT !.trace = @ \o <<CloseCall(w.fd_fifo), TerminatingLine>>,
              !.fifo_fd_open = IF w.fd_fifo = FIFO_FD THEN FALSE ELSE @]

\* lines 142-145: the sink and the last line
CleanUpSink(w) ==
    [w EXCEPT !.trace = @ \o <<CloseCall(w.fd_fifo), Call("unlink"),
                               TerminatingLine>>,
              !.fifo_fd_open = IF w.fd_fifo = FIFO_FD THEN FALSE ELSE @,
              !.fifo_exists = FALSE]

\* Using a handle libusb_close has already freed is undefined: the call may
\* go through or the process may die at the first use of the handle.
CleanUpCrash(w) ==
    [w EXCEPT !.trace = Append(@, IF w.init_has_been_run # 0
                                  THEN Call("remove_elgato")
                                  ELSE Call("libusb_release_interface")),
              !.crashed = TRUE]

\* mutant: the libusb context is torn down before the device is released
clean_up_ContextFirst(w) ==
    {CleanUpSink(CleanUpDevice(CleanUpContext(w)))}

\* the worlds one call of clean_up can leave
clean_up(w) ==
    {CleanUpSink(CleanUpContext(CleanUpDevice(w)))}
    \cup (IF w.devh # NULL /\ ~w.handle_open THEN {CleanUpCrash(w)} ELSE {})

----------------------------------------------------------------------------
(* sig_handler, lines 61-72 *)

\* mutant: SIGTERM toggles the flag instead of clearing it
sig_handler_Toggle(sig, running) ==
    CASE sig = "SIGINT" -> 0
      [] sig = "SIGTERM" -> 1 - running
      [] OTHER -> running

sig_handler(sig, running) ==
    CASE sig = "SIGINT" -> 0
      [] sig = "SIGTERM" -> 0
      [] OTHER -> running

\* mutant: the handler tears the resources down itself
SigHandler_CleansUp ==
    /\ pc # "exited"
    /\ UNCHANGED bad_cmdline
    /\ Count(StopLine) < MaxSignals
    /\ \E sig \in Signals :
         /\ is_running' = sig_handler(sig, is_running)
         /\ Apply(CleanUpSink(CleanUpContext(CleanUpDevice(
                [World EXCEPT !.trace = Append(@, StopLine)]))))
    /\ UNCHANGED <<pc, args, token, resolution, driver_detached,
                   exit_status>>

\* a termination signal is delivered between two steps of the main flow
SigHandler ==
    /\ pc # "exited"
    /\ UNCHANGED bad_cmdline
    /\ Count(StopLine) < MaxSignals
    /\ \E sig \in Signals :
         /\ trace' = Append(trace, StopLine)
         /\ is_running' = sig_handler(sig, is_running)
    /\ UNCHANGED <<pc, args, token, resolution, libusb_ret, fd_fifo,
                   init_has_been_run, devh, ctx_ready, handle_open, claimed,
                   driver_detached, fifo_exists, fifo_fd_open, exit_status>>

----------------------------------------------------------------------------
(* main, lines 203-207: the firmware files *)

\* access(path, F_OK) with its result
Access(file, exists) ==
    Call(IF file = "idle"
         THEN (IF exists THEN "access(idle)=0" ELSE "access(idle)=-1")
         ELSE (IF exists THEN "access(enc)=0" ELSE "access(enc)=-1"))

\* the calls of the condition of line 203: || evaluates the second access
\* only when the first file exists
FirmwareAccesses(idle, enc) ==
    IF idle THEN <<Access("idle", idle), Access("enc", enc)>>
    ELSE <<Access("idle", idle)>>

\* mutant: only the first firmware file decides
FirmwareMissing_IdleOnly(idle, enc) == ~idle

FirmwareMissing(idle, enc) == ~idle \/ ~enc

FirmwareCheck ==
    /\ pc = "fw"
    /\ UNCHANGED bad_cmdline
    /\ \E idle \in BOOLEAN, enc \in BOOLEAN :
         IF FirmwareMissing(idle, enc)
         THEN /\ trace' = trace \o FirmwareAccesses(idle, enc)
                             \o <<Out("Firmware files missing.")>>
              /\ pc' = "end"
         ELSE /\ trace' = trace \o FirmwareAccesses(idle, enc)
              /\ pc' = "locate"
    /\ UNCHANGED <<args, token, resolution, is_running, libusb_ret, fd_fifo,
                   init_has_been_run, devh, ctx_ready, handle_open, claimed,
                   driver_detached, fifo_exists, fifo_fd_open, exit_status>>

----------------------------------------------------------------------------
(* init_dev_handler, lines 74-107, and its call, lines 209-213 *)

PidName == <<"0044", "004e", "0051", "005d">>
OpenCall(p) == Call(PidName[p + 1])
Handle(p) == p + 1

\* the libusb_open_device_with_vid_pid calls made when the first product id
\* that opens is first (4: none opens)
Probes(first) ==
    [i \in 1..(IF first < 3 THEN first + 1 ELSE 4) |-> OpenCall(i - 1)]

FirstOpenable(openable) ==
    IF openable = {} THEN 4
    ELSE CHOOSE p \in openable : \A q \in openable : p <= q

\* r: the result of libusb_init; openable: the product ids libusb can open
init_dev_handler(w, r, openable) ==
    LET first == FirstOpenable(openable)
        w0 == [w EXCEPT !.devh = NULL, !.libusb_ret = r,
                        !.trace = Append(@, Call("libusb_init"))]
    IN  IF r # 0 THEN
            [ret |-> 1,
             w |-> [w0 EXCEPT !.trace = Append(@,
                                  Out("Error initializing libusb."))]]
        ELSE LET w1 == [w0 EXCEPT !.ctx_ready = TRUE,
                                  !.trace = @ \o Probes(first)]
             IN  IF first < UNSUPPORTED_PID THEN
                     [ret |-> 0,
                      w |-> [w1 EXCEPT !.devh = Handle(first),
                                       !.handle_open = TRUE]]
                 ELSE IF first = UNSUPPORTED_PID THEN
                     [ret |-> 1,
                      w |-> [w1 EXCEPT !.devh = Handle(first),
                                       !.handle_open = TRUE,
                                       !.trace = Append(@, Out(
  "This revision of the Elgato Game Capture HD is currently not supported."))]]
                 ELSE [ret |-> 1, w |-> w1]

InitDevHandler ==
    /\ pc = "locate"
    /\ UNCHANGED bad_cmdline
    /\ \E r \in {0, LIBUSB_ERROR_OTHER}, openable \in SUBSET PIDS :
         LET res == init_dev_handler(World, r, openable)
         IN  IF res.ret # 0
             THEN /\ Apply([res.w EXCEPT !.trace = Append(@,
                                   Out("Unable to find device."))])
                  /\ pc' = "end"
             ELSE /\ Apply(res.w)
                  /\ pc' = "acquire"
    /\ UNCHANGED <<args, token, resolution, is_running, driver_detached,
                   exit_status>>

----------------------------------------------------------------------------
(* get_interface, lines 109-125, and its call, lines 215-219 *)

\* active: libusb_kernel_driver_active is non-zero; cfg_ok, claim_ok: the
\* libusb call succeeds
get_interface(w, active, cfg_ok, claim_ok) ==
    LET w0 == [w EXCEPT !.trace = @ \o
                 (<<Call("libusb_kernel_driver_active")>>
                  \o (IF active THEN <<Call("libusb_detach_kernel_driver")>>
                      ELSE <<>>)
                  \o <<Call("libusb_set_configuration")>>)]
    IN  IF ~cfg_ok THEN
            [ret |-> 1,
             w |-> [w0 EXCEPT !.trace = Append(@,
                                  Out("Could not activate configuration."))]]
        ELSE IF ~claim_ok THEN
            [ret |-> 1,
             w |-> [w0 EXCEPT !.trace = @ \o <<Call("libusb_claim_interface"),
                                  Out("Failed to claim interface.")>>]]
        ELSE
            [ret |-> 0,
             w |-> [w0 EXCEPT !.trace = Append(@,
                                  Call("libusb_claim_interface")),
                              !.claimed = TRUE]]

\* libusb_detach_kernel_driver, line 111: called when a driver is active;
\* its result (detach_ok) is not looked at, and nothing attaches the driver
\* again
Detach(active, detach_ok) == active /\ detach_ok

\* mutant: the goto end after a failed get_interface is missing
GetInterface_NoGoto ==
    /\ pc = "acquire"
    /\ UNCHANGED bad_cmdline
    /\ \E active \in BOOLEAN, detach_ok \in BOOLEAN,
          cfg_ok \in BOOLEAN, claim_ok \in BOOLEAN :
         LET res == get_interface(World, active, cfg_ok, claim_ok)
         IN  /\ driver_detached' = (driver_detached \/ (active /\ detach_ok))
             /\ IF res.ret # 0
                THEN /\ Apply([res.w EXCEPT !.trace = Append(@,
                                      Out("Could not claim interface."))])
                     /\ pc' = "mkfifo"
                ELSE /\ Apply(res.w)
                     /\ pc' = "mkfifo"
    /\ UNCHANGED <<args, token, resolution, is_running, exit_status>>

GetInterface ==
    /\ pc = "acquire"
    /\ UNCHANGED bad_cmdline
    /\ \E active \in BOOLEAN, detach_ok \in BOOLEAN,
          cfg_ok \in BOOLEAN, claim_ok \in BOOLEAN :
         LET res == get_interface(World, active, cfg_ok, claim_ok)
         IN  /\ driver_detached' = (driver_detached \/ Detach(active, detach_ok))
             /\ IF res.ret # 0
                THEN /\ Apply([res.w EXCEPT !.trace = Append(@,
                                      Out("Could not claim interface."))])
                     /\ pc' = "end"
                ELSE /\ Apply(res.w)
                     /\ pc' = "mkfifo"
    /\ UNCHANGED <<args, token, resolution, is_running, exit_status>>

----------------------------------------------------------------------------
(* main, lines 221-227: the sink *)

\* mutant: the sink is not created once a signal has arrived
MakeFifo_AbortOnSignal ==
    /\ pc = "mkfifo"
    /\ UNCHANGED bad_cmdline
    /\ IF is_running = 0
       THEN /\ pc' = "end"
            /\ UNCHANGED <<fifo_exists, trace>>
       ELSE /\ \E ok \in BOOLEAN :
                 fifo_exists' = (fifo_exists \/ ok)
            /\ trace' = trace \o <<Call("mkfifo"),
                 Out("/tmp/elgato_gchd.ts has been created. Waiting for user to open it.")>>
            /\ pc' = "open"
    /\ UNCHANGED <<args, token, resolution, is_running, libusb_ret, fd_fifo,
                   init_has_been_run, devh, ctx_ready, handle_open, claimed,
                   driver_detached, fifo_fd_open, exit_status>>

\* mkfifo(fifo_path, 0644) and the line announcing the path
MakeFifo ==
    /\ pc = "mkfifo"
    /\ UNCHANGED bad_cmdline
    /\ \E ok \in BOOLEAN :
         fifo_exists' = (fifo_exists \/ ok)
    /\ trace' = trace \o <<Call("mkfifo"), Out("/tmp/elgato_gchd.ts has been created. Waiting for user to open it.")>>
    /\ pc' = "open"
    /\ UNCHANGED <<args, token, resolution, is_running, libusb_ret, fd_fifo,
                   init_has_been_run, devh, ctx_ready, handle_open, claimed,
                   driver_detached, fifo_fd_open, exit_status>>

\* fd_fifo = open(fifo_path, O_WRONLY): fails when the path does not exist
OpenFifo ==
    /\ pc = "open"
    /\ UNCHANGED bad_cmdline
    /\ \E ok \in (IF fifo_exists THEN BOOLEAN ELSE {FALSE}) :
         /\ fd_fifo' = IF ok THEN FIFO_FD ELSE OPEN_FAILED
         /\ fifo_fd_open' = ok
    /\ trace' = Append(trace, Call("open"))
    /\ pc' = "chk"
    /\ UNCHANGED <<args, token, resolution, is_running, libusb_ret,
                   init_has_been_run, devh, ctx_ready, handle_open, claimed,
                   driver_detached, fifo_exists, exit_status>>

----------------------------------------------------------------------------
(* main, lines 229-245: the configuration dispatch *)

\* if (is_running), line 230, and the line announcing the initialization
CheckRunning ==
    /\ pc = "chk"
    /\ UNCHANGED bad_cmdline
    /\ IF is_running # 0
       THEN /\ trace' = Append(trace, Out("Running. Initializing device."))
            /\ pc' = "config"
       ELSE /\ pc' = "loop"
            /\ UNCHANGED trace
    /\ UNCHANGED <<args, token, resolution, is_running, libusb_ret, fd_fifo,
                   init_has_been_run, devh, ctx_ready, handle_open, claimed,
                   driver_detached, fifo_exists, fifo_fd_open, exit_status>>

\* mutant: the switch has no case for vc1080p, which takes the default branch
Dispatch_MissingCase(res) ==
    CASE res = v720p -> "configure_dev_720p"
      [] res = v1080p -> "configure_dev_1080p"
      [] res = v576i -> "configure_dev_576i"
      [] res = vc576p -> "configure_dev_component_576p"
      [] res = vc720p -> "configure_dev_component_720p"
      [] res = vc1080i -> "configure_dev_component_1080i"
      [] OTHER -> "clean_up"

\* the function the switch of lines 233-242 calls
Dispatch(res) ==
    CASE res = v720p -> "configure_dev_720p"
      [] res = v1080p -> "configure_dev_1080p"
      [] res = v576i -> "configure_dev_576i"
      [] res = vc576p -> "configure_dev_component_576p"
      [] res = vc720p -> "configure_dev_component_720p"
      [] res = vc1080i -> "configure_dev_component_1080i"
      [] res = vc1080p -> "configure_dev_component_1080p"
      [] OTHER -> "clean_up"

\* The configurator proper: on success it sets the initialized flag.
configure_dev(ok, init) == IF ok THEN 1 ELSE init

StreamingLine == Out("Streaming data from device now.")

ConfigureDev ==
    /\ pc = "config"
    /\ UNCHANGED bad_cmdline
    /\ IF Dispatch(resolution) # "clean_up" THEN
         \E ok \in BOOLEAN :
            /\ Apply([World EXCEPT
                        !.trace = @ \o <<Call(Dispatch(resolution)),
                                         StreamingLine>>,
                        !.init_has_been_run = configure_dev(ok, @)])
            /\ pc' = "loop"
            /\ UNCHANGED exit_status
       ELSE
         \E w \in clean_up(World) :
            IF w.crashed
            THEN /\ Apply(w)
                 /\ pc' = "exited"
                 /\ exit_status' = SIGSEGV_STATUS
            ELSE /\ Apply([w EXCEPT !.trace = Append(@, StreamingLine)])
                 /\ pc' = "loop"
                 /\ UNCHANGED exit_status
    /\ UNCHANGED <<args, token, resolution, is_running, driver_detached>>

----------------------------------------------------------------------------
(* main, lines 247-250: the capture loop *)

\* while (is_running)
LoopCheck ==
    /\ pc = "loop"
    /\ UNCHANGED bad_cmdline
    /\ is_running # 0 => Count(Call("receive_data")) < MaxRecv
    /\ pc' = IF is_running # 0 THEN "recv" ELSE "end"
    /\ UNCHANGED <<args, token, resolution, is_running, libusb_ret, fd_fifo,
                   init_has_been_run, devh, ctx_ready, handle_open, claimed,
                   driver_detached, fifo_exists, fifo_fd_open, exit_status,
                   trace>>

\* receive_data()
ReceiveData ==
    /\ pc = "recv"
    /\ UNCHANGED bad_cmdline
    /\ trace' = Append(trace, Call("receive_data"))
    /\ pc' = "loop"
    /\ UNCHANGED <<args, token, resolution, is_running, libusb_ret, fd_fifo,
                   init_has_been_run, devh, ctx_ready, handle_open, claimed,
                   driver_detached, fifo_exists, fifo_fd_open, exit_status>>

----------------------------------------------------------------------------
(* main, lines 252-256: the end label *)

CleanUp ==
    /\ pc = "end"
    /\ UNCHANGED bad_cmdline
    /\ \E w \in clean_up(World) :
         /\ Apply(w)
         /\ pc' = IF w.crashed THEN "exited" ELSE "ret"
         /\ exit_status' = IF w.crashed THEN SIGSEGV_STATUS ELSE exit_status
    /\ UNCHANGED <<args, token, resolution, is_running, driver_detached>>

\* mutant: main returns a failure status when no device was found
Return_Failure ==
    /\ pc = "ret"
    /\ UNCHANGED bad_cmdline
    /\ pc' = "exited"
    /\ exit_status' = IF devh = NULL THEN EXIT_FAILURE ELSE EXIT_SUCCESS
    /\ UNCHANGED <<args, token, resolution, is_running, libusb_ret, fd_fifo,
                   init_has_been_run, devh, ctx_ready, handle_open, claimed,
                   driver_detached, fifo_exists, fifo_fd_open, trace>>

\* return 0
Return ==
    /\ pc = "ret"
    /\ UNCHANGED bad_cmdline
    /\ pc' = "exited"
    /\ exit_status' = EXIT_SUCCESS
    /\ UNCHANGED <<args, token, resolution, is_running, libusb_ret, fd_fifo,
                   init_has_been_run, devh, ctx_ready, handle_open, claimed,
                   driver_detached, fifo_exists, fifo_fd_open, trace>>

----------------------------------------------------------------------------
(* The state at line 161: the globals as initialised at lines 45-48, the   *)
(* handlers of lines 150-154 installed, any command line of up to MaxArgs  *)
(* words.                                                                  *)
Init ==
    /\ pc = "parse"
    /\ args \in SeqsUpTo(Words, MaxArgs)
    /\ bad_cmdline = UsageError(args)
    /\ token = "none"
    /\ resolution = 0
    /\ is_running = 1
    /\ libusb_ret = 1
    /\ fd_fifo = 0
    /\ init_has_been_run = 0
    /\ devh = NULL
    /\ ctx_ready = FALSE
    /\ handle_open = FALSE
    /\ claimed = FALSE
    /\ driver_detached = FALSE
    /\ fifo_exists = FALSE
    /\ fifo_fd_open = FALSE
    /\ exit_status = NotExited
    /\ trace = <<>>

Next ==
    \/ ParseOption
    \/ FirmwareCheck
    \/ InitDevHandler
    \/ GetInterface
    \/ MakeFifo
    \/ OpenFifo
    \/ CheckRunning
    \/ ConfigureDev
    \/ LoopCheck
    \/ ReceiveData
    \/ CleanUp
    \/ Return
    \/ SigHandler

Spec == Init /\ [][Next]_vars

----------------------------------------------------------------------------
(* A harness for clean_up as a function: the run of the program, with      *)
(* clean_up called a second time after the call of line 254 has returned.  *)

CleanUpAgain ==
    /\ pc = "ret"
    /\ UNCHANGED bad_cmdline
    /\ Count(TerminatingLine) = 1
    /\ \E w \in clean_up(World) :
         /\ Apply(w)
         /\ pc' = IF w.crashed THEN "exited" ELSE "ret"
         /\ exit_status' = IF w.crashed THEN SIGSEGV_STATUS ELSE exit_status
    /\ UNCHANGED <<args, token, resolution, is_running, driver_detached>>

NextIdem == Next \/ CleanUpAgain

SpecIdem == Init /\ [][NextIdem]_vars

----------------------------------------------------------------------------
(* Reading the trace *)

CleanUps == Count(TerminatingLine)
IsCall(e) == e[1] = "call"
Calls(t) == SelectSeq(t, IsCall)
Indices(e) == {i \in DOMAIN trace : trace[i] = e}
First(e) == CHOOSE i \in Indices(e) : \A j \in Indices(e) : i <= j
After(i) == SubSeq(trace, i + 1, Len(trace))

RunningLine == Out("Running. Initializing device.")
FirmwareLine == Out("Firmware files missing.")
NotFoundLine == Out("Unable to find device.")
UnsupportedLine ==
    Out("This revision of the Elgato Game Capture HD is currently not supported.")
RecvCall == Call("receive_data")

ConfigCalls ==
    {Call("configure_dev_720p"), Call("configure_dev_1080p"),
     Call("configure_dev_576i"), Call("configure_dev_component_576p"),
     Call("configure_dev_component_720p"),
     Call("configure_dev_component_1080i"),
     Call("configure_dev_component_1080p")}

ConfigCount == Cardinality({i \in DOMAIN trace : trace[i] \in ConfigCalls})

\* the configurator the spec assigns to a token; no -r option means 720p
KeyOf(t) ==
    CASE t = "none" -> Call("configure_dev_720p")
      [] t = "720p" -> Call("configure_dev_720p")
      [] t = "1080p" -> Call("configure_dev_1080p")
      [] t = "576i" -> Call("configure_dev_576i")
      [] t = "c576p" -> Call("configure_dev_component_576p")
      [] t = "c720p" -> Call("configure_dev_component_720p")
      [] t = "c1080i" -> Call("configure_dev_component_1080i")
      [] t = "c1080p" -> Call("configure_dev_component_1080p")

RECURSIVE DropRecv(_)
DropRecv(t) ==
    IF t # <<>> /\ Head(t) = RecvCall THEN DropRecv(Tail(t)) ELSE t

\* a termination signal was first delivered after the configurator had run
SignalWhileStreaming ==
    /\ Has(StreamingLine)
    /\ Has(StopLine)
    /\ First(StreamingLine) < First(StopLine)

\* the calls made after the configurator, without the leading receive_data
CallsAfterStreaming == DropRecv(Calls(After(First(StreamingLine))))

RecvAfterSignal ==
    Cardinality({i \in DOMAIN trace : i > First(StopLine) /\ trace[i] = RecvCall})

FourSteps ==
    <<Call("libusb_release_interface"), Call("libusb_close"),
      Call("libusb_exit"), CloseCall(fd_fifo), Call("unlink")>>

FiveSteps == <<Call("remove_elgato")>> \o FourSteps

Done == pc \in {"ret", "exited"}

----------------------------------------------------------------------------
(* C1.  Original statement: on every execution path of main, a CLI usage   *)
(* error included, clean_up has run exactly once when the process exits.   *)
C1_CleanupOnceOnEveryPath ==
    pc = "exited" => CleanUps = 1

(* C1, amended: clean_up never runs twice; a run that passes option        *)
(* parsing exits with exactly one clean_up behind it, and a run that ends  *)
(* in a usage error exits from the option loop with none.                  *)
C1_CleanupOncePastParsing ==
    /\ CleanUps <= 1
    /\ pc = "exited" => CleanUps = (IF bad_cmdline THEN 0 ELSE 1)

C1_Witness ==
    /\ pc = "exited"
    /\ CleanUps = 1
    /\ Has(StopLine)
    /\ Has(RecvCall)

----------------------------------------------------------------------------
----------------------------------------------------------------------------
(* C3.  Once the process has exited, the interface is not claimed, the     *)
(* device handle is not open, the USB context is not initialized and the   *)
(* sink path does not exist.                                               *)
C3_NothingHeldAtExit ==
    pc = "exited" =>
        /\ ~claimed
        /\ ~handle_open
        /\ ~ctx_ready
        /\ ~fifo_exists

C3_Witness ==
    /\ pc = "exited"
    /\ fd_fifo = FIFO_FD
    /\ Has(Call("libusb_claim_interface"))
    /\ Has(RecvCall)

----------------------------------------------------------------------------
(* C4.  The process never exits with a kernel driver that get_interface    *)
(* detached still detached.                                                *)
C4_DriverRestoredAtExit ==
    pc = "exited" => ~driver_detached

----------------------------------------------------------------------------
(* C5.  is_running starts true, and every step that changes it is a step   *)
(* of the signal handler taking it from true to false.                     *)
C5_RunFlagMonotone ==
    /\ is_running = 1
    /\ [][is_running' # is_running =>
            /\ is_running = 1
            /\ is_running' = 0
            /\ pc' = pc
            /\ trace' = Append(trace, StopLine)]_vars

C5_Witness ==
    /\ is_running = 0
    /\ Count(StopLine) >= 2
    /\ pc = "recv"

----------------------------------------------------------------------------
(* C6.  When a firmware file is missing, the run reports it and goes to    *)
(* cleanup: libusb_init and the device probes are never called, nor any    *)
(* call of a later stage; the only calls are the access checks and the     *)
(* sink steps of clean_up.                                                 *)
FirmwareFoundMissing ==
    Has(Call("access(idle)=-1")) \/ Has(Call("access(enc)=-1"))

C6_MissingFirmwareStopsBeforeLocate ==
    FirmwareFoundMissing =>
        /\ Has(FirmwareLine)
        /\ pc \in {"end", "ret", "exited"}
        /\ \A i \in DOMAIN trace :
             IsCall(trace[i]) =>
                trace[i] \in {Call("access(idle)=0"), Call("access(idle)=-1"),
                              Call("access(enc)=-1"), CloseCall(0),
                              Call("unlink")}
        /\ pc = "exited" => CleanUps = 1

C6_Witness ==
    /\ pc = "exited"
    /\ Has(Call("access(enc)=-1"))
    /\ Has(FirmwareLine)

----------------------------------------------------------------------------
(* C7.  Original statement: in every run in which the firmware check,      *)
(* locate and acquire succeed, the configurator is invoked exactly once,   *)
(* whatever the timing of signals.                                         *)
C7_ConfiguredExactlyOnce ==
    (pc = "exited" /\ Has(Call("mkfifo"))) => ConfigCount = 1

(* C7, amended: the configurator is invoked at most once, with the key of  *)
(* the token (720p when -r is omitted) and before any receive_data; in a   *)
(* run in which the firmware check, locate and acquire succeed it is       *)
(* invoked exactly once when is_running is still true at the check of      *)
(* line 230, and not at all when a signal was delivered before that check. *)
C7_ConfiguredOnceUnlessStopped ==
    /\ ConfigCount <= 1
    /\ \A i \in DOMAIN trace :
         /\ trace[i] \in ConfigCalls => trace[i] = KeyOf(token)
         /\ trace[i] = RecvCall =>
              \E j \in 1..(i - 1) : trace[j] \in ConfigCalls
    /\ (Has(Call("open")) /\ pc \notin {"chk", "config"}) =>
         IF Has(RunningLine)
         THEN ConfigCount = 1
         ELSE /\ ConfigCount = 0
              /\ Has(StopLine)
    /\ Has(RunningLine) =>
         (Has(StopLine) => First(RunningLine) < First(StopLine))

C7_Witness ==
    /\ pc = "exited"
    /\ token = "c1080i"
    /\ Count(Call("configure_dev_component_1080i")) = 1
    /\ Has(StopLine)
    /\ Has(RecvCall)

----------------------------------------------------------------------------
(* C8.  When only the fourth product id opens, the run reports the         *)
(* unsupported revision and not the generic not-found line; when no        *)
(* product id opens, the unsupported revision is not reported.             *)
C8_UnsupportedDistinctFromNotFound ==
    pc \in {"end", "ret", "exited"} =>
        /\ devh = Handle(UNSUPPORTED_PID) =>
              (Has(UnsupportedLine) /\ ~Has(NotFoundLine))
        /\ (Has(Call(PidName[4])) /\ devh = NULL) => ~Has(UnsupportedLine)

----------------------------------------------------------------------------
(* C9.  A second call of clean_up makes no resource call: no reset,        *)
(* release, handle close, context teardown, sink close or unlink appears   *)
(* a second time.                                                          *)
C9_SecondCleanUpDoesNothing ==
    \A i \in DOMAIN trace, j \in DOMAIN trace :
        (i < j /\ trace[i] = TerminatingLine) =>
            ~(IsCall(trace[j]) /\ trace[j] # RecvCall)

----------------------------------------------------------------------------
(* C10.  The exit status is non-zero exactly when the command line holds   *)
(* a usage error; every other run returns EXIT_SUCCESS, after clean_up.    *)
C10_ExitStatus ==
    pc = "exited" =>
        /\ (exit_status # EXIT_SUCCESS) <=> bad_cmdline
        /\ ~bad_cmdline => (exit_status = EXIT_SUCCESS /\ CleanUps = 1)

C10_Witness ==
    /\ pc = "exited"
    /\ exit_status = EXIT_SUCCESS
    /\ Has(Out("Could not claim interface."))

----------------------------------------------------------------------------
(* C11.  A setup failure (missing firmware, libusb_init failure, device    *)
(* not found, unsupported revision, set-configuration failure, claim       *)
(* failure) writes exactly one diagnostic line before clean_up starts.     *)
SetupDiagnostics ==
    {FirmwareLine, NotFoundLine, UnsupportedLine,
     Out("Error initializing libusb."),
     Out("Could not activate configuration."),
     Out("Failed to claim interface."),
     Out("Could not claim interface.")}

DiagnosticCount ==
    Cardinality({i \in DOMAIN trace : trace[i] \in SetupDiagnostics})

\* the main flow stands at the end label after a failed setup stage
SetupFailed == pc = "end" /\ ~Has(Call("mkfifo"))

C11_OneDiagnosticPerFailure ==
    SetupFailed => DiagnosticCount = 1

----------------------------------------------------------------------------
(* C12.  clean_up calls libusb_release_interface only when the interface   *)
(* was successfully claimed in this run.                                   *)
ClaimSucceeded ==
    /\ Has(Call("libusb_claim_interface"))
    /\ ~Has(Out("Failed to claim interface."))

C12_ReleaseOnlyIfClaimed ==
    Has(Call("libusb_release_interface")) => ClaimSucceeded

----------------------------------------------------------------------------
(* C13.  When clean_up is entered before the sink was created, it closes   *)
(* no descriptor (in particular not descriptor 0) and does not unlink the  *)
(* sink path.                                                              *)
C13_SinkStepsOnlyIfSinkOpened ==
    ~Has(Call("mkfifo")) =>
        /\ ~Has(CloseCall(0))
        /\ ~Has(CloseCall(FIFO_FD))
        /\ ~Has(CloseCall(OPEN_FAILED))
        /\ ~Has(Call("unlink"))

----------------------------------------------------------------------------
(* C14.  init_has_been_run is set only by the configurator step, hence     *)
(* before the first receive_data; it is never set in a run in which the    *)
(* configurator was not invoked; and clean_up sends the device reset       *)
(* exactly when the flag is set.                                           *)
ResetCall == Call("remove_elgato")

C14_InitializedFlag ==
    /\ [](/\ init_has_been_run # 0 => ConfigCount = 1
          /\ Has(ResetCall) => init_has_been_run # 0
          /\ (pc = "ret" /\ init_has_been_run # 0) => Has(ResetCall))
    /\ [][init_has_been_run' # init_has_been_run =>
            /\ pc = "config"
            /\ init_has_been_run' = 1
            /\ ~Has(RecvCall)
            /\ trace' = trace \o <<KeyOf(token), StreamingLine>>]_vars

C14_Witness ==
    /\ pc = "recv"
    /\ init_has_been_run # 0
    /\ ~Has(RecvCall)

----------------------------------------------------------------------------
(* C15.  Original statement: for any two of the five resources (USB        *)
(* context, device handle, interface claim, sink, device configuration)    *)
(* acquired and released in a run, the one acquired later is released      *)
(* earlier.                                                                *)
Resources == {"context", "handle", "claim", "sink", "configuration"}

AcquireCalls(r) ==
    CASE r = "context" -> {Call("libusb_init")}
      [] r = "handle" -> {OpenCall(p) : p \in PIDS}
      [] r = "claim" -> {Call("libusb_claim_interface")}
      [] r = "sink" -> {Call("mkfifo"), Call("open")}
      [] r = "configuration" -> ConfigCalls

ReleaseCalls(r) ==
    CASE r = "context" -> {Call("libusb_exit")}
      [] r = "handle" -> {Call("libusb_close")}
      [] r = "claim" -> {Call("libusb_release_interface")}
      [] r = "sink" -> {CloseCall(fd_fifo), Call("unlink")}
      [] r = "configuration" -> {ResetCall}

AcquiredAt(r) == {i \in DOMAIN trace : trace[i] \in AcquireCalls(r)}
ReleasedAt(r) == {i \in DOMAIN trace : trace[i] \in ReleaseCalls(r)}

SomeRelease ==
    \E i \in DOMAIN trace :
        trace[i] \in UNION {ReleaseCalls(r) : r \in Resources}

\* among the resources of R, of two different resources the one acquired
\* later is released earlier (nothing to compare before the first release)
ReverseOrder(R) ==
    LET acq == [r \in R |-> AcquiredAt(r)]
        rel == [r \in R |-> ReleasedAt(r)]
    IN  SomeRelease =>
          \A a \in R :
            \A b \in R \ {a} :
              \A k \in rel[a], l \in rel[b] :
                \A i \in acq[a], j \in acq[b] : i < j => l < k

C15_StrictReverseOrder == ReverseOrder(Resources)

(* C15, amended: the device configuration, the interface claim, the device *)
(* handle and the USB context are released in the strict reverse of the    *)
(* order in which they were acquired; the sink, acquired after the claim   *)
(* and before the configuration, is released last, after the context.      *)
C15_ReverseOrderSinkLast ==
    /\ ReverseOrder(Resources \ {"sink"})
    /\ SomeRelease =>
         LET sink == ReleasedAt("sink")
         IN  \A r \in Resources \ {"sink"} :
                 \A k \in ReleasedAt(r), l \in sink : k < l

C15_Witness ==
    /\ pc = "exited"
    /\ \A r \in Resources : AcquiredAt(r) # {} /\ ReleasedAt(r) # {}

----------------------------------------------------------------------------
(* C16.  After the firmware check, locate or acquire has failed, the main  *)
(* flow is at cleanup: every call after the failure line is a call of      *)
(* clean_up, and no stage is attempted a second time.                      *)
AcquireFailedLine == Out("Could not claim interface.")

CleanUpCallSet ==
    {Call("libusb_release_interface"), Call("libusb_close"),
     Call("libusb_exit"), CloseCall(0), Call("unlink")}

StageCalls ==
    {Call("access(idle)=0"), Call("access(idle)=-1"), Call("libusb_init"),
     Call("libusb_kernel_driver_active"), Call("libusb_set_configuration"),
     Call("libusb_claim_interface")}

C16_FailureJumpsToCleanUp ==
    \A f \in {FirmwareLine, NotFoundLine, AcquireFailedLine} :
        Has(f) =>
            /\ pc \in {"end", "ret", "exited"}
            /\ Count(f) = 1
            /\ \A i \in DOMAIN trace :
                 (i > First(f) /\ IsCall(trace[i])) =>
                     trace[i] \in CleanUpCallSet
            /\ \A c \in StageCalls : Count(c) <= 1

C16_Witness ==
    /\ pc = "exited"
    /\ Has(AcquireFailedLine)
    /\ Has(Call("libusb_claim_interface"))

----------------------------------------------------------------------------
(* C17.  A step of the signal handler changes the run flag and nothing     *)
(* else of the program's state, and every step that gives up a resource    *)
(* (claim, handle, context, sink path, sink descriptor) is the clean_up    *)
(* step of the main flow.                                                  *)
HandlerStep == trace' = Append(trace, StopLine)

TeardownStep ==
    \/ claimed /\ ~claimed'
    \/ handle_open /\ ~handle_open'
    \/ ctx_ready /\ ~ctx_ready'
    \/ fifo_exists /\ ~fifo_exists'
    \/ fifo_fd_open /\ ~fifo_fd_open'

C17_HandlerTouchesOnlyRunFlag ==
    [][/\ HandlerStep =>
            /\ is_running' = 0
            /\ UNCHANGED <<pc, args, token, resolution, libusb_ret, fd_fifo,
                           init_has_been_run, devh, ctx_ready, handle_open,
                           claimed, driver_detached, fifo_exists,
                           fifo_fd_open, exit_status>>
       /\ TeardownStep => (pc = "end" /\ ~HandlerStep)]_vars

C17_Witness ==
    /\ is_running = 0
    /\ pc = "recv"
    /\ devh # NULL
    /\ handle_open
    /\ claimed
    /\ ctx_ready
    /\ fifo_fd_open
    /\ init_has_been_run # 0

----------------------------------------------------------------------------
(* C18.  The device handle is open only between a successful locate and    *)
(* clean_up: it is not open before locate, after a failed locate (the      *)
(* unsupported revision included) or after clean_up has run.               *)
C18_HandleValidOnlyWhileLocated ==
    /\ pc \in {"parse", "fw", "locate"} => ~handle_open
    /\ Has(NotFoundLine) => ~(devh # NULL /\ handle_open)
    /\ CleanUps >= 1 => ~handle_open

----------------------------------------------------------------------------
(* C19.  A signal delivered before the check of line 230 aborts no setup   *)
(* stage: the main flow reaches the end label before the sink is opened    *)
(* only through a failed stage; the configurator, receive_data and the     *)
(* reset are skipped, and clean_up follows the open with its last four     *)
(* steps.                                                                  *)
StoppedBeforeCheck == Has(StopLine) /\ ~Has(RunningLine)

C19_SignalDuringSetup ==
    StoppedBeforeCheck =>
        /\ ConfigCount = 0
        /\ ~Has(RecvCall)
        /\ ~Has(ResetCall)
        /\ init_has_been_run = 0
        /\ (pc \in {"end", "ret"} /\ ~Has(Call("open"))) =>
              \E f \in {FirmwareLine, NotFoundLine, AcquireFailedLine} : Has(f)
        /\ (Done /\ Has(Call("open"))) =>
              Calls(After(First(Call("open")))) = FourSteps

C19_Witness ==
    /\ pc = "exited"
    /\ Len(trace) > 0
    /\ trace[1] = StopLine
    /\ fd_fifo = FIFO_FD
    /\ Has(Call("libusb_claim_interface"))
    /\ ConfigCount = 0
    /\ CleanUps = 1

----------------------------------------------------------------------------
(* C20.  The resolution is always one of the seven enumeration values, so  *)
(* the dispatch calls a configurator and never takes its default branch:   *)
(* no clean_up runs before the streaming line.                             *)
C20_DispatchNeverDefaults ==
    /\ resolution \in v720p..vc1080p
    /\ pc = "config" => Call(Dispatch(resolution)) \in ConfigCalls
    /\ Has(StreamingLine) =>
          /\ ConfigCount = 1
          /\ \A i \in 1..First(StreamingLine) : trace[i] # TerminatingLine

C20_Witness ==
    /\ pc = "config"
    /\ token = "c1080p"
    /\ resolution = vc1080p
====
